---- MODULE Spec2Model ----
(***************************************************************************)
(* ArenaSet<O, I, M> of shawshank (src/src/arena_set.rs): an internment    *)
(* structure made of a map from items to IDs, a vector of slots and the    *)
(* head of a free list threaded through the vacant slots.                  *)
(*                                                                         *)
(* Items (the owned type O, compared by value) are the numbers 1..NumValues.*)
(* The ID type I is a custom ID over a signed base type, scaled down to    *)
(* -1..IdBaseMax: I::to_usize fails on a negative ID and I::from_usize     *)
(* fails on an index outside the indices the type encodes.                 *)
(* Vec indices are 0-based: slot ix of the vector is interned[ix + 1].     *)
(***************************************************************************)
EXTENDS Integers, Sequences, FiniteSets, TLC

\* Number of distinct items the callers intern.
NumValues == 3
\* Largest value of the (scaled down) base type of the ID type I.
IdBaseMax == 2

Values == 1..NumValues
\* The values of the ID type I: one negative value stands for every ID that
\* to_usize rejects.
Ids == (0 - 1)..IdBaseMax

\* `!0`, the end-of-list marker of the free list: usize::MAX, which is never
\* the index of a slot.
SENTINEL == 0 - 1

VARIABLES
    map,        \* M: item -> ID
    interned,   \* Vec<Slot<O>>
    head,       \* index of the first vacant slot, or SENTINEL
    max_idx,    \* the largest index an item may get
    encodable,  \* the indices I::from_usize converts (fixed by the type I)
    last,       \* the last call: operation, argument, result, count() before
    first_id,   \* item -> the ID its current internment first returned,
                \*   for the items interned since the last shrink
    retired,    \* the IDs disinterned since the last shrink
    reissued,   \* those of them an intern of a new item has returned since
    refused,    \* the item the call before the last refused with IdOverflow,
                \*   or NoItem
    streak      \* the IDs returned by the interns of a run of interns that
                \*   started on an empty arena, or NoStreak

vars == <<map, interned, head, max_idx, encodable, last, first_id, retired,
          reissued, refused, streak>>

----------------------------------------------------------------------------
\* Option<T> and Result<T, Error>

None == [some |-> FALSE, v |-> 0]
Some(x) == [some |-> TRUE, v |-> x]

Ok(x) == [ok |-> TRUE, val |-> x, err |-> "None"]
Err(e) == [ok |-> FALSE, val |-> 0, err |-> e]

\* enum Slot<T>
Vacant(next) == [tag |-> "Vacant", next |-> next]
Occupied(item) == [tag |-> "Occupied", item |-> item]

----------------------------------------------------------------------------
\* The ID codec: ToPrimitive / FromPrimitive of the ID type.

\* (a wrapping cast: a negative ID becomes an index past every vector)
to_usizeWrapping(id) == IF id >= 0 THEN Some(id) ELSE Some(IdBaseMax + 1)
\* id.to_usize(): the base type's to_u64, which rejects negative values.
to_usize(id) == IF id >= 0 THEN Some(id) ELSE None

\* I::from_usize(ix): the base type's from_u64, which rejects what it cannot hold.
from_usize(ix) == IF ix \in encodable THEN Some(ix) ELSE None

----------------------------------------------------------------------------
\* The Map capability (traits.rs), the map being a function item -> ID.

\* Map::len
MapLen(m) == Cardinality(DOMAIN m)

\* (a get that never finds the key)
MapGetNever(m, k) == None
\* Map::get
MapGet(m, k) == IF k \in DOMAIN m THEN Some(m[k]) ELSE None

\* (an insert that adds nothing)
MapInsertNothing(m, k, v) == m
\* Map::insert
MapInsert(m, k, v) == [x \in DOMAIN m \cup {k} |-> IF x = k THEN v ELSE m[x]]

\* (a remove that removes nothing)
MapRemoveNothing(m, k) == m
\* (a remove that keeps the key and drops the others)
MapRemoveOthers(m, k) == [x \in DOMAIN m \cap {k} |-> m[x]]
\* Map::remove
MapRemove(m, k) == [x \in DOMAIN m \ {k} |-> m[x]]

\* Vec::get
VecGet(vec, ix) == IF ix >= 0 /\ ix < Len(vec) THEN Some(vec[ix + 1]) ELSE None

----------------------------------------------------------------------------
\* ArenaSet::count
CountOf(m) == MapLen(m)
count == CountOf(map)

\* ArenaSet::resolve, on a given vector
ResolveIn(vec, id) ==
    LET ix == to_usize(id) IN
    IF ~ix.some THEN Err("FromIdFailed")
    ELSE LET owned == VecGet(vec, ix.v) IN
         IF ~owned.some THEN Err("InvalidId")
         ELSE IF owned.v.tag = "Occupied" THEN Ok(owned.v.item)
         ELSE Err("InvalidId")

resolve(id) == ResolveIn(interned, id)

----------------------------------------------------------------------------
\* insert!

\* (the guard off by one: cnt == max_idx)
IdSpaceFullOffByOne(cnt, mx) == cnt # 0 /\ cnt = mx
\* (the guard with > for ==)
IdSpaceFullLate(cnt, mx) == cnt # 0 /\ cnt - 1 > mx
\* "don't let IDs overflow"
IdSpaceFull(cnt, mx) == cnt # 0 /\ cnt - 1 = mx

\* (the index taken as interned.len())
PushedIndexLen(vec) == Len(vec)
\* the index of the slot just pushed: interned.len() - 1
PushedIndex(vec) == Len(vec) - 1

\* The slot taken for `owned`: pushed when the free list is empty, else the
\* head of the free list. fault is "None", or what went wrong: the
\* unreachable!() panic, or get_unchecked_mut past the end of the vector
\* (undefined behaviour: the vector is left as it is or written to).
Allocate(owned) ==
    IF head = SENTINEL
    THEN LET pushed == Append(interned, Occupied(owned)) IN
         {[ix |-> PushedIndex(pushed), interned |-> pushed, head |-> head,
           fault |-> "None"]}
    ELSE IF head < 0 \/ head >= Len(interned)
    THEN {[ix |-> head, interned |-> vec, head |-> head, fault |-> "Undefined"] :
            vec \in {interned, Append(interned, Occupied(owned))}}
    ELSE LET old == interned[head + 1]
             replaced == [interned EXCEPT ![head + 1] = Occupied(owned)]
         IN  IF old.tag = "Vacant"
             THEN {[ix |-> head, interned |-> replaced, head |-> old.next,
                    fault |-> "None"]}
             ELSE {[ix |-> head, interned |-> replaced, head |-> head,
                    fault |-> "Unreachable"]}

\* (the slot left occupied)
RevertNothing(vec, ix, h) == vec
\* (the slot linked to itself)
RevertToSelf(vec, ix, h) == [vec EXCEPT ![ix + 1] = Vacant(ix)]
\* "revert internment": *get_unchecked_mut(ix) = Slot::Vacant(head)
Revert(vec, ix, h) == [vec EXCEPT ![ix + 1] = Vacant(h)]

\* "convert to ID": complete the internment, or revert it.
Complete(a, item) ==
    IF a.fault # "None"
    THEN [res |-> Err(a.fault), map |-> map, interned |-> a.interned, head |-> a.head]
    ELSE LET id == from_usize(a.ix) IN
         IF id.some
         THEN [res |-> Ok(id.v), map |-> MapInsert(map, item, id.v),
               interned |-> a.interned, head |-> a.head]
         ELSE [res |-> Err("ToIdFailed"), map |-> map,
               interned |-> Revert(a.interned, a.ix, a.head),
               head |-> a.ix]

\* (the guard placed after the push of the slot)
OverflowAfterPush(item) ==
    [res |-> Err("IdOverflow"), map |-> map,
     interned |-> Append(interned, Occupied(item)), head |-> head]
\* return Err(Error::IdOverflow), before a slot is taken
Overflow(item) ==
    [res |-> Err("IdOverflow"), map |-> map, interned |-> interned, head |-> head]

\* The outcomes of insert!(this, item, to_owned): the result and the fields
\* of the arena after it.
insert(item) ==
    LET entry == MapGet(map, item) IN
    IF entry.some
    THEN {[res |-> Ok(entry.v), map |-> map, interned |-> interned, head |-> head]}
    ELSE IF IdSpaceFull(count, max_idx)
    THEN {Overflow(item)}
    ELSE {Complete(a, item) : a \in Allocate(item)}

----------------------------------------------------------------------------
\* disintern!

\* (the slot left as it is)
VacateKeep(vec, ix, h) == vec
\* (the slot after ix vacated in its place)
VacateNext(vec, ix, h) ==
    IF ix + 2 <= Len(vec) THEN [vec EXCEPT ![ix + 2] = Vacant(h)] ELSE vec
\* (the slot vacated without a link to the rest of the free list)
VacateUnlinked(vec, ix, h) == [vec EXCEPT ![ix + 1] = Vacant(SENTINEL)]
\* mem::replace(occupied, Slot::Vacant(head))
Vacate(vec, ix, h) == [vec EXCEPT ![ix + 1] = Vacant(h)]

\* (the head left as it is)
FreedHeadKeep(ix, h) == h
\* $this.head = ix
FreedHead(ix, h) == ix

disintern(id) ==
    LET ix == to_usize(id) IN
    IF ~ix.some
    THEN [res |-> Err("FromIdFailed"), map |-> map, interned |-> interned, head |-> head]
    ELSE LET slot == VecGet(interned, ix.v) IN
         IF ~slot.some \/ slot.v.tag = "Vacant"
         THEN [res |-> Err("InvalidId"), map |-> map, interned |-> interned, head |-> head]
         ELSE [res |-> Ok(slot.v.item), map |-> MapRemove(map, slot.v.item),
               interned |-> Vacate(interned, ix.v, head),
               head |-> FreedHead(ix.v, head)]

----------------------------------------------------------------------------
\* shrink!

\* (the old index kept as the new one)
NewIndexOld(shrunk, ix) == ix
\* (shrunk.len() read after the push)
NewIndexNext(shrunk, ix) == Len(shrunk) + 1
\* The new index of a kept slot: shrunk.len()
NewIndex(shrunk, ix) == Len(shrunk)

\* The loop over interned.drain(..).enumerate(), from index ix on: the
\* occupied slots are renumbered and recorded in remap, or removed from the
\* map when an index does not convert. The map entries of the kept items are
\* left as they are.
RECURSIVE ShrinkLoop(_, _, _, _)
ShrinkLoop(ix, remap, shrunk, m) ==
    IF ix >= Len(interned)
    THEN [remap |-> remap, shrunk |-> shrunk, map |-> m]
    ELSE LET oi == interned[ix + 1] IN
         IF oi.tag = "Occupied"
         THEN LET old_id == from_usize(ix)
                  new_id == from_usize(NewIndex(shrunk, ix))
              IN  IF old_id.some /\ new_id.some
                  THEN ShrinkLoop(ix + 1, MapInsert(remap, old_id.v, new_id.v),
                                  Append(shrunk, oi), m)
                  ELSE ShrinkLoop(ix + 1, remap, shrunk, MapRemove(m, oi.item))
         ELSE ShrinkLoop(ix + 1, remap, shrunk, m)

\* (the head left as it is)
ShrunkHeadKeep(h) == h
\* "invariant: no vacant slots": $this.head = !0
ShrunkHead(h) == SENTINEL

\* The outcome of shrink!(this, T): res.val is the remap it returns (shrink
\* returns no Result; it cannot fail).
shrink ==
    LET r == ShrinkLoop(0, <<>>, <<>>, map) IN
    [res |-> Ok(r.remap), map |-> r.map, interned |-> r.shrunk,
     head |-> ShrunkHead(head)]

----------------------------------------------------------------------------
\* The record of the last call and the histories the properties read.

NoStreak == {0 - 1}
NoItem == 0

\* The item the last call refused with IdOverflow.
Refused == IF last.op = "intern" /\ last.res = Err("IdOverflow") THEN last.arg ELSE NoItem

Call(op, arg, res, fresh) ==
    [op |-> op, arg |-> arg, res |-> res, fresh |-> fresh, before |-> count]

Created == [op |-> "new", arg |-> 0, res |-> Ok(0), fresh |-> FALSE, before |-> 0]

\* ArenaSet::bounded_with_capacity: an empty arena, max_idx at most the span
\* of the ID type.
Empty ==
    /\ map = <<>>
    /\ interned = <<>>
    /\ head = SENTINEL
    /\ max_idx \in 0..IdBaseMax
    /\ last = Created
    /\ first_id = <<>>
    /\ retired = {}
    /\ reissued = {}
    /\ refused = NoItem
    /\ streak = {}

\* An ID type that encodes every index of its span (a primitive integer, a
\* custom_intern_id! type).
Init ==
    /\ Empty
    /\ encodable = 0..IdBaseMax

\* ArenaSet::intern
Intern(item) ==
    \E out \in insert(item) :
        LET fresh == item \notin DOMAIN map IN
        /\ map' = out.map
        /\ interned' = out.interned
        /\ head' = out.head
        /\ last' = Call("intern", item, out.res, fresh)
        /\ first_id' = IF fresh /\ out.res.ok
                       THEN MapInsert(first_id, item, out.res.val)
                       ELSE first_id
        /\ retired' = retired
        /\ refused' = Refused
        /\ reissued' = IF fresh /\ out.res.ok
                       THEN reissued \cup ({out.res.val} \cap retired)
                       ELSE reissued
        /\ streak' = IF fresh /\ out.res.ok /\ streak # NoStreak
                     THEN streak \cup {out.res.val}
                     ELSE streak
        /\ UNCHANGED <<max_idx, encodable>>

\* ArenaSet::disintern
Disintern(id) ==
    LET out == disintern(id) IN
    /\ map' = out.map
    /\ interned' = out.interned
    /\ head' = out.head
    /\ last' = Call("disintern", id, out.res, FALSE)
    /\ first_id' = IF out.res.ok THEN MapRemove(first_id, out.res.val) ELSE first_id
    /\ retired' = IF out.res.ok THEN retired \cup {id} ELSE retired
    /\ reissued' = IF out.res.ok THEN reissued \ {id} ELSE reissued
    /\ refused' = Refused
    /\ streak' = IF out.res.ok THEN NoStreak ELSE streak
    /\ UNCHANGED <<max_idx, encodable>>

\* ArenaSet::shrink
Shrink ==
    LET out == shrink IN
    /\ map' = out.map
    /\ interned' = out.interned
    /\ head' = out.head
    /\ last' = Call("shrink", 0, out.res, FALSE)
    /\ first_id' = <<>>
    /\ retired' = {}
    /\ reissued' = {}
    /\ refused' = Refused
    /\ streak' = IF out.interned = <<>> THEN {} ELSE NoStreak
    /\ UNCHANGED <<max_idx, encodable>>

\* ArenaSet::resolve
Resolve(id) ==
    /\ last' = Call("resolve", id, resolve(id), FALSE)
    /\ refused' = Refused
    /\ UNCHANGED <<map, interned, head, max_idx, encodable, first_id, retired,
                   reissued, streak>>

Next ==
    \/ \E item \in Values : Intern(item)
    \/ \E id \in Ids : Disintern(id)
    \/ Shrink
    \/ \E id \in Ids : Resolve(id)

Spec == Init /\ [][Next]_vars

\* The ID types of the arena: I is any type with ToPrimitive, FromPrimitive
\* and Bounded. Besides the type that encodes every index: a base type
\* narrower than the span, a range-checked type that starts at 1, and a type
\* with a gap at index 1.
Codecs ==
    {0..IdBaseMax, 0..(IdBaseMax - 1), 1..IdBaseMax, (0..IdBaseMax) \ {1}}

\* An arena over any of these ID types.
InitLossy ==
    /\ Empty
    /\ encodable \in Codecs

SpecLossy == InitLossy /\ [][Next]_vars

\* ArenaSet::new: an empty arena whose max_idx is the whole span of the ID
\* type.
InitNew ==
    /\ InitLossy
    /\ max_idx = IdBaseMax

\* An ID type whose conversions are no fixed function of the index: between
\* two calls, what from_usize converts changes.
Recode ==
    /\ \E c \in Codecs : c # encodable /\ encodable' = c
    /\ UNCHANGED <<map, interned, head, max_idx, last, first_id, retired,
                   reissued, refused, streak>>

\* The calls that change the arena, and the changes of the conversions.
NextRecode ==
    \/ \E item \in Values : Intern(item)
    \/ \E id \in Ids : Disintern(id)
    \/ Shrink
    \/ Recode

SpecRecode == InitNew /\ [][NextRecode]_vars

----------------------------------------------------------------------------
\* What the properties read off a state.

\* The items currently interned.
Live == DOMAIN map

\* The indices of the occupied slots of a vector.
OccupiedIn(vec) == {ix \in 0..(Len(vec) - 1) : vec[ix + 1].tag = "Occupied"}

\* What intern(item) and disintern(id) would return, called now.
InternReturns(item) == (CHOOSE out \in insert(item) : TRUE).res
InternLeaves(item) == CHOOSE out \in insert(item) : TRUE
DisinternReturns(id) == disintern(id).res

IsOccupied(slot) == slot.tag = "Occupied"

----------------------------------------------------------------------------
\* C1: no two distinct currently-interned values have the same ID: for live
\* v # w, intern(v) and intern(w) return different IDs (so an intern of a new
\* value never returns the ID intern returns for another live value).
C1_DistinctIds ==
    \A v \in Live : \A w \in Live :
        v # w => InternReturns(v) # InternReturns(w)

\* C2: invariant I3: for every (key, id) of the map, the slot at decode(id)
\* is in range, Occupied, and holds key.
C2_I3 ==
    \A key \in DOMAIN map :
        LET ix == to_usize(map[key]) IN
        /\ ix.some
        /\ VecGet(interned, ix.v).some
        /\ VecGet(interned, ix.v).v = Occupied(key)

\* C3: when shrink returned remap R and v had ID o before the shrink, an
\* intern(v) after it returns R[o], the ID under which resolve yields v.
C3_InternAfterShrink ==
    [][last'.op = "shrink" =>
        \A v \in Live :
            LET o == map[v]
                R == last'.res.val
            IN  /\ o \in DOMAIN R
                /\ InternReturns(v)' = Ok(R[o])
                /\ ResolveIn(interned', R[o]) = Ok(v)]_vars

\* C4: round trip: when intern(v) of a value v that was not interned returns
\* Ok(id), resolve(id) right after it returns v.
C4_RoundTrip ==
    (last.op = "intern" /\ last.fresh /\ last.res.ok)
        => resolve(last.res.val) = Ok(last.arg)

\* a new value was interned into a reused slot below the end of the vector
C4_Witness ==
    /\ last.op = "intern" /\ last.fresh /\ last.res.ok
    /\ last.res.val < Len(interned) - 1
    /\ resolve(last.res.val) = Ok(last.arg)

\* C5 as stated: after intern(v), a second intern(v) returns the same ID as
\* the first, and count() has grown over the two calls by exactly 1 when v
\* was not interned before the first call, by 0 when it was.
C5_AsStated ==
    last.op = "intern" =>
        /\ last.res.ok
        /\ InternReturns(last.arg) = last.res
        /\ CountOf(InternLeaves(last.arg).map) - last.before
              = IF last.fresh THEN 1 ELSE 0

\* C5, amended: after intern(v), a second intern(v) returns what the first
\* returned and leaves count() as it is; when the first returned Ok, count()
\* has grown over the two calls by exactly 1 if v was not interned before, by
\* 0 if it was; when the first failed, count() has not grown.
C5_Idempotence ==
    last.op = "intern" =>
        /\ InternReturns(last.arg) = last.res
        /\ CountOf(InternLeaves(last.arg).map) = count
        /\ count - last.before = IF last.fresh /\ last.res.ok THEN 1 ELSE 0

\* a new value was interned into an arena that held other values
C5_Witness ==
    /\ last.op = "intern" /\ last.fresh /\ last.res.ok
    /\ count >= 2
    /\ InternReturns(last.arg) = last.res

\* C6: ID stability: as long as there is no shrink and v is not disinterned,
\* every intern(v) returns the ID the first intern(v) returned, and that ID
\* resolves to v.
C6_IdStability ==
    /\ \A v \in DOMAIN first_id :
          /\ InternReturns(v) = Ok(first_id[v])
          /\ resolve(first_id[v]) = Ok(v)
    /\ (last.op = "intern" /\ last.arg \in DOMAIN first_id)
          => last.res = Ok(first_id[last.arg])

\* v was interned again after other values were interned and disinterned
C6_Witness ==
    /\ last.op = "intern" /\ ~last.fresh
    /\ last.arg \in DOMAIN first_id
    /\ retired # {}
    /\ reissued # {}
    /\ last.res = Ok(first_id[last.arg])

\* C7: right after disintern(id) returned Ok, resolve(id) returns
\* Err(InvalidId) and a second disintern(id) returns Err(InvalidId).
C7_Invalidated ==
    (last.op = "disintern" /\ last.res.ok)
        => /\ resolve(last.arg) = Err("InvalidId")
           /\ DisinternReturns(last.arg) = Err("InvalidId")

\* a value was disinterned while another stayed interned
C7_Witness ==
    /\ last.op = "disintern" /\ last.res.ok
    /\ count >= 1
    /\ resolve(last.arg) = Err("InvalidId")

\* C8: overflow boundary: the interns of distinct values into an empty arena
\* succeed with the IDs 0, 1, ... up to max_idx, and an intern of a value
\* that is not interned returns Err(IdOverflow) exactly when
\* count() = max_idx + 1.
C8_OverflowBoundary ==
    /\ streak # NoStreak => streak = 0..(count - 1)
    /\ count <= max_idx + 1
    /\ \A v \in Values \ Live :
          (InternReturns(v) = Err("IdOverflow")) <=> (count = max_idx + 1)
    /\ (last.op = "intern" /\ last.fresh)
          => /\ (last.res = Err("IdOverflow")) <=> (last.before = max_idx + 1)
             /\ last.res.ok <=> (last.before <= max_idx)

\* max_idx + 1 >= 2 values were interned into an empty arena and one more
\* was refused
C8_Witness ==
    /\ max_idx >= 1
    /\ streak = 0..max_idx
    /\ count = max_idx + 1
    /\ last.op = "intern" /\ last.fresh /\ last.res = Err("IdOverflow")

\* C9: compaction: shrink keeps exactly the occupied slots in their order
\* and renumbers them from 0: the remap has one entry per live ID, preserves
\* the order, has image 0..count()-1, and resolve(new) after the shrink is
\* resolve(old) before it.
C9_Compaction ==
    [][last'.op = "shrink" =>
        LET R == last'.res.val
            live == OccupiedIn(interned)
        IN  /\ DOMAIN R = live
            /\ \A a \in live : \A b \in live : a < b => R[a] < R[b]
            /\ {R[o] : o \in live} = 0..(count' - 1)
            /\ \A o \in live : ResolveIn(interned', R[o]) = ResolveIn(interned, o)
            /\ interned' = SelectSeq(interned, IsOccupied)
            /\ Len(interned') = count']_vars

\* a shrink moved a value to a smaller ID and kept another where it was
C9_Witness ==
    /\ last.op = "shrink"
    /\ \E o \in DOMAIN last.res.val : last.res.val[o] < o
    /\ \E o \in DOMAIN last.res.val : last.res.val[o] = o /\ resolve(o).ok

----------------------------------------------------------------------------
\* The free list, read off a state.

\* The indices of the vacant slots of a vector.
VacantIn(vec) == {ix \in 0..(Len(vec) - 1) : vec[ix + 1].tag = "Vacant"}

\* The chain of slots from h along Vacant(next), at most fuel slots long:
\* path is the indices visited, ok says that the chain ended at the end-of-list
\* marker without leaving the vector or meeting an occupied slot.
RECURSIVE ChainFrom(_, _, _)
ChainFrom(vec, h, fuel) ==
    IF h = SENTINEL THEN [ok |-> TRUE, path |-> <<>>]
    ELSE IF fuel = 0 \/ h < 0 \/ h >= Len(vec) THEN [ok |-> FALSE, path |-> <<>>]
    ELSE IF vec[h + 1].tag # "Vacant" THEN [ok |-> FALSE, path |-> <<>>]
    ELSE LET rest == ChainFrom(vec, vec[h + 1].next, fuel - 1) IN
         [ok |-> rest.ok, path |-> <<h>> \o rest.path]

\* The free list of the arena, from head.
FreeChain == ChainFrom(interned, head, Len(interned))

\* The items held by the occupied slots.
ItemsIn(vec) == {vec[ix + 1].item : ix \in OccupiedIn(vec)}

----------------------------------------------------------------------------
C12_I1 == count = Cardinality(OccupiedIn(interned))

\* an intern failed with ToIdFailed in an arena that holds a value
C12_Witness ==
    /\ last.op = "intern" /\ last.res = Err("ToIdFailed")
    /\ count >= 1
    /\ count = Cardinality(OccupiedIn(interned))

\* C13: invariant I4, after every call: no two Occupied slots hold equal
\* values, and an intern of a value that is interned takes no slot.
C13_I4 ==
    /\ \A a \in OccupiedIn(interned) : \A b \in OccupiedIn(interned) :
          a # b => interned[a + 1].item # interned[b + 1].item
    /\ \A v \in ItemsIn(interned) : InternLeaves(v).interned = interned

\* a value interned before the last shrink was interned again after it
C13_Witness ==
    /\ last.op = "intern" /\ ~last.fresh /\ last.res.ok
    /\ first_id = <<>>
    /\ count >= 2

\* C14: invariant I2, after every call: the chain from head along
\* Vacant(next) visits every vacant slot exactly once, no occupied slot and
\* no index past the vector, and ends at the end-of-list marker; intern never
\* reaches its unreachable!().
C14_I2 ==
    LET path == FreeChain.path IN
    /\ FreeChain.ok
    /\ {path[i] : i \in 1..Len(path)} = VacantIn(interned)
    /\ Len(path) = Cardinality(VacantIn(interned))
    /\ last.res.err \notin {"Unreachable", "Undefined"}

\* an intern was rolled back on ToIdFailed in an arena that holds a value
C14_Witness ==
    /\ last.op = "intern" /\ last.res = Err("ToIdFailed")
    /\ head # SENTINEL
    /\ count >= 1
    /\ FreeChain.ok

\* C15: resolve(id) and disintern(id) classify alike: Err(FromIdFailed) when
\* id does not decode, Err(InvalidId) when the index is past the end of the
\* vector or the slot is Vacant, and Ok, with the slot's value, exactly when
\* the slot is Occupied.
C15_Classification ==
    \A id \in Ids :
        LET r == resolve(id)
            d == DisinternReturns(id)
        IN  /\ id < 0 => (r = Err("FromIdFailed") /\ d = Err("FromIdFailed"))
            /\ (id >= 0 /\ id \notin OccupiedIn(interned))
                  => (r = Err("InvalidId") /\ d = Err("InvalidId"))
            /\ id \in OccupiedIn(interned)
                  => (r = Ok(interned[id + 1].item) /\ d = r)
            /\ (r.ok <=> id \in OccupiedIn(interned))
            /\ (d.ok <=> id \in OccupiedIn(interned))

\* a disintern failed with InvalidId in an arena with an occupied slot, a
\* vacant slot and an ID past the end of the vector
C15_Witness ==
    /\ last.op = "disintern" /\ last.res = Err("InvalidId")
    /\ OccupiedIn(interned) # {}
    /\ VacantIn(interned) # {}
    /\ Len(interned) <= IdBaseMax

\* C16 as stated: when intern(v) failed with IdOverflow, shrink() and then
\* intern(v) again succeeds.
C16_AsStated ==
    (refused # NoItem /\ last.op = "shrink") => InternReturns(refused).ok

\* C16, amended: when intern(v) failed with IdOverflow, shrink() does not
\* help, intern(v) fails with IdOverflow again; after a successful disintern
\* intern(v) succeeds and returns the freed ID.
C16_RecoverByDisintern ==
    /\ (refused # NoItem /\ last.op = "shrink")
          => InternReturns(refused) = Err("IdOverflow")
    /\ (refused # NoItem /\ last.op = "disintern" /\ last.res.ok)
          => InternReturns(refused) = Ok(last.arg)

\* an intern was refused with IdOverflow and shrink was called next
C16_Witness ==
    /\ refused # NoItem
    /\ last.op = "shrink"
    /\ count = max_idx + 1

\* C17: in shrink, an occupied slot whose old index or new index does not
\* convert is dropped: its key leaves the map, the remap has no entry for it,
\* the rebuilt vector does not hold it, and the slots after it are numbered as
\* if it had not been there.  (A step that leaves the conversion as it was
\* and whose last call is shrink is a shrink: Recode changes the conversion.)
C17_ShrinkDrops ==
    [][(last'.op = "shrink" /\ encodable' = encodable) =>
        LET R == last'.res.val
            occ == OccupiedIn(interned)
            K == DOMAIN R
            rank(ix) == Cardinality({j \in K : j < ix})
        IN  /\ K \subseteq occ
            /\ \A ix \in occ :
                  ix \in K <=> (ix \in encodable /\ rank(ix) \in encodable)
            /\ \A ix \in K :
                  /\ R[ix] = rank(ix)
                  /\ interned'[rank(ix) + 1] = interned[ix + 1]
            /\ Len(interned') = Cardinality(K)
            /\ DOMAIN map' = DOMAIN map \ {interned[ix + 1].item : ix \in occ \ K}
            /\ ItemsIn(interned') = {interned[ix + 1].item : ix \in K}]_vars

\* a shrink dropped a value and kept another, which it moved
C17_Witness ==
    /\ last.op = "shrink"
    /\ count < last.before
    /\ \E o \in DOMAIN last.res.val : last.res.val[o] < o

\* C18: after shrink the vector is dense and the free list is empty: head
\* is the end-of-list marker, no slot is Vacant, the length is count(), and
\* resolve(i) succeeds for the i < count() and returns InvalidId for the
\* i >= count().
C18_Dense ==
    last.op = "shrink" =>
        /\ head = SENTINEL
        /\ VacantIn(interned) = {}
        /\ Len(interned) = count
        /\ \A i \in Ids :
              /\ (i >= 0 /\ i < count) => resolve(i).ok
              /\ i >= count => resolve(i) = Err("InvalidId")
              /\ resolve(i).ok => (i >= 0 /\ i < count)

\* a shrink moved a value and left IDs past the end of the vector
C18_Witness ==
    /\ last.op = "shrink"
    /\ \E o \in DOMAIN last.res.val : last.res.val[o] < o
    /\ count >= 1
    /\ count <= IdBaseMax

\* C19: slots are reused before the vector grows, last vacated first: a
\* disintern puts its slot in front of the free list; an intern of a new
\* value takes the slot in front of the free list when there is a vacant
\* slot, and only when there is none pushes a slot, whose ID is the length
\* the vector had.
C19_Lifo ==
    [][/\ (last'.op = "disintern" /\ last'.res.ok)
            => FreeChain'.path = <<last'.arg>> \o FreeChain.path
       /\ (last'.op = "intern" /\ last'.fresh /\ last'.res.ok)
            => IF VacantIn(interned) # {}
               THEN /\ last'.res.val = Head(FreeChain.path)
                    /\ FreeChain'.path = Tail(FreeChain.path)
                    /\ Len(interned') = Len(interned)
               ELSE /\ last'.res.val = Len(interned)
                    /\ Len(interned') = Len(interned) + 1
                    /\ FreeChain'.path = <<>>]_vars

\* two IDs disinterned since the last shrink were given to new values, and
\* the last call was one of these interns
C19_Witness ==
    /\ last.op = "intern" /\ last.fresh /\ last.res.ok
    /\ last.res.val \in reissued
    /\ Cardinality(reissued) >= 2

\* C20: when intern fails with ToIdFailed, the allocation is rolled back: the
\* slot taken is Vacant again and is the head of the free list; the map,
\* count() and the occupied slots are as before the call; no ID resolves to
\* the value.
C20_Rollback ==
    [][(last'.op = "intern" /\ last'.res = Err("ToIdFailed")) =>
        LET ix == IF head = SENTINEL THEN Len(interned) ELSE head IN
        /\ head' = ix
        /\ ix < Len(interned')
        /\ interned'[ix + 1].tag = "Vacant"
        /\ FreeChain'.ok
        /\ map' = map
        /\ count' = count
        /\ OccupiedIn(interned') = OccupiedIn(interned)
        /\ \A o \in OccupiedIn(interned) : interned'[o + 1] = interned[o + 1]
        /\ \A id \in Ids : resolve(id)' # Ok(last'.arg)]_vars

\* an intern failed with ToIdFailed in an arena that holds a value
C20_Witness ==
    /\ last.op = "intern" /\ last.res = Err("ToIdFailed")
    /\ count >= 1
    /\ head # SENTINEL

\* C21: an intern that fails with IdOverflow and a disintern that fails with
\* InvalidId or FromIdFailed change nothing: the vector, the map, head and
\* count() are after the call what they were before it.
C21_FailedCallsFrame ==
    [][(\/ last'.op = "intern" /\ last'.res = Err("IdOverflow")
        \/ last'.op = "disintern" /\ last'.res = Err("InvalidId")
        \/ last'.op = "disintern" /\ last'.res = Err("FromIdFailed"))
       => /\ interned' = interned
          /\ map' = map
          /\ head' = head
          /\ count' = count]_vars

\* an intern was refused with IdOverflow and then a disintern failed with
\* InvalidId, in a full arena
C21_Witness ==
    /\ refused # NoItem
    /\ last.op = "disintern" /\ last.res = Err("InvalidId")
    /\ count = max_idx + 1

\* C22: intern of a value that is interned returns Ok with the ID the map
\* holds for it and changes nothing, also when the ID space is full
\* (count() == max_idx + 1); it never returns IdOverflow.
C22_FastPath ==
    \A v \in Live :
        insert(v) = {[res |-> Ok(map[v]), map |-> map, interned |-> interned,
                      head |-> head]}

\* a value that is interned was interned again in a full arena
C22_Witness ==
    /\ last.op = "intern" /\ ~last.fresh /\ last.res.ok
    /\ last.arg \in Live /\ last.res.val = map[last.arg]
    /\ count = max_idx + 1
    /\ count >= 2

\* C23: a successful disintern(id) returns the value resolve(id) yielded
\* before the call, removes the key of that value and no other from the map,
\* lowers count() by 1, and leaves every other ID resolving as before.
C23_DisinternFrame ==
    [][(last'.op = "disintern" /\ last'.res.ok) =>
        /\ last'.res = resolve(last'.arg)
        /\ last'.res.val \in Live
        /\ Live' = Live \ {last'.res.val}
        /\ \A k \in Live' : map'[k] = map[k]
        /\ count' = count - 1
        /\ Len(interned') = Len(interned)
        /\ \A id \in Ids \ {last'.arg} : resolve(id)' = resolve(id)
        /\ \A ix \in 0..(Len(interned) - 1) :
              ix # last'.arg => interned'[ix + 1] = interned[ix + 1]]_vars

\* a value was disinterned while another stayed interned and another slot
\* was vacant
C23_Witness ==
    /\ last.op = "disintern" /\ last.res.ok
    /\ count >= 1
    /\ \E ix \in VacantIn(interned) : ix # last.arg

\* C24: with an ID type whose conversion is a function of the index, shrink
\* drops no value: every occupied slot's index and every new index convert,
\* the new index is at most the old one, and count() and the set of interned
\* values are after the shrink what they were before it.
C24_NoDrop ==
    [][last'.op = "shrink" =>
        LET R == last'.res.val
            occ == OccupiedIn(interned)
        IN  /\ occ \subseteq encodable
            /\ DOMAIN R = occ
            /\ \A o \in occ : R[o] <= o /\ R[o] \in encodable
            /\ count' = count
            /\ Live' = Live
            /\ ItemsIn(interned') = ItemsIn(interned)]_vars

\* a shrink moved a value in an arena whose ID type does not encode every
\* index
C24_Witness ==
    /\ last.op = "shrink"
    /\ encodable # 0..IdBaseMax
    /\ \E o \in DOMAIN last.res.val : last.res.val[o] < o
    /\ count >= 1

\* C25: a shrink directly after a shrink returns the identity on
\* 0..count()-1 and leaves the vector, head and count() as they are.
C25_ShrinkTwice ==
    last.op = "shrink" =>
        /\ DOMAIN shrink.res.val = 0..(count - 1)
        /\ \A i \in 0..(count - 1) : shrink.res.val[i] = i
        /\ shrink.interned = interned
        /\ shrink.head = head
        /\ CountOf(shrink.map) = count

\* a shrink that moved a value, in an arena that holds two values
C25_Witness ==
    /\ last.op = "shrink"
    /\ \E o \in DOMAIN last.res.val : last.res.val[o] < o
    /\ count >= 2

\* C26: the bound max_idx is kept: count() <= max_idx + 1, the vector is no
\* longer than max_idx + 1, and the IDs intern returns and the IDs of a
\* remap of shrink decode to indices in 0..max_idx.
C26_Bound ==
    /\ count <= max_idx + 1
    /\ Len(interned) <= max_idx + 1
    /\ (last.op = "intern" /\ last.res.ok)
          => to_usize(last.res.val) \in {Some(ix) : ix \in 0..max_idx}
    /\ \A v \in Values : \A out \in insert(v) :
          out.res.ok => to_usize(out.res.val) \in {Some(ix) : ix \in 0..max_idx}
    /\ last.op = "shrink"
          => \A o \in DOMAIN last.res.val :
                /\ to_usize(o) \in {Some(ix) : ix \in 0..max_idx}
                /\ to_usize(last.res.val[o]) \in {Some(ix) : ix \in 0..max_idx}

\* a shrink in a full arena whose bound is below what the ID type encodes
C26_Witness ==
    /\ last.op = "shrink"
    /\ count = max_idx + 1
    /\ count >= 2
    /\ max_idx < IdBaseMax

====
